---- MODULE Spec2Model ----
(***************************************************************************)
(* A model of src/src/output/file_name.rs: the FileStyle factory, the      *)
(* FileName renderer (paint, add_parent_bits, classify_char,               *)
(* coloured_file_name, style, kind_style) and the FileColours composition. *)
(*                                                                         *)
(* Text is a sequence of one-character strings, so that splitting a name   *)
(* on '.', joining path components and escaping control characters are     *)
(* computed.  A glyph of the icon font is one character, written "U+F115". *)
(* A Style is the name of the expression that produced it: "default" is    *)
(* Style::default(), "directory" is colours.directory(), and so on.        *)
(***************************************************************************)
EXTENDS Naturals, Sequences, FiniteSets, TLC

VARIABLES
    classify,   \* FileStyle.classify
    exts,       \* FileStyle.exts
    fn,         \* the FileName under construction or being rendered
    pc,         \* "style" | "name" | "painted" | "styled" | "coloured"
    bits,       \* what paint() returned
    target_fn,  \* the FileName paint() built for an Ok target
    styled,     \* what style() returned
    consulted,  \* whether style() called exts.colour_file
    coloured    \* what colour_file() returned

vars ==
    <<classify, exts, fn, pc, bits, target_fn, styled, consulted, coloured>>

----------------------------------------------------------------------------
(* Bounds of the model.                                                    *)

\* At most this many of a File's eight kind predicates are true at once.
MaxKinds == 2

\* At most this many normal components in the path of a listed entry.
MaxDepth == 2

\* At most this many nested pairs in a composed FileColours.
MaxNest == 2

----------------------------------------------------------------------------
(* Option<T>.                                                              *)

None == [some |-> FALSE]

Some(v) == [some |-> TRUE, v |-> v]

is_some(o) == o.some

is_none(o) == ~o.some

or_else(a, b) == IF is_some(a) THEN a ELSE b

unwrap_or_else(a, d) == IF is_some(a) THEN a.v ELSE d

----------------------------------------------------------------------------
(* Paths (std::path::Path, as file_name.rs uses it): an optional root and  *)
(* a sequence of normal components.                                        *)

Slash == "/"

has_root(p) == p.root

components_count(p) == (IF p.root THEN 1 ELSE 0) + Len(p.comps)

\* Path::parent(): Some(path without its last normal component), or None
\* for "/" and for the empty path.
parent(p) ==
    IF Len(p.comps) = 0 THEN None
    ELSE Some([root |-> p.root, comps |-> SubSeq(p.comps, 1, Len(p.comps) - 1)])

RECURSIVE JoinComps(_)
JoinComps(cs) ==
    IF Len(cs) = 0 THEN <<>>
    ELSE IF Len(cs) = 1 THEN cs[1]
    ELSE cs[1] \o <<Slash>> \o JoinComps(Tail(cs))

\* to_string_lossy().to_string() and display().to_string()
path_to_string(p) == (IF p.root THEN <<Slash>> ELSE <<>>) \o JoinComps(p.comps)

----------------------------------------------------------------------------
(* output::escape: text that holds no control character is one fragment in *)
(* the good style; otherwise every character is a fragment of its own, a   *)
(* control character as its escape sequence in the bad style.              *)

Frag(text, style) == [text |-> text, style |-> style]

ControlChars == {"\t", "\n"}

is_printable(c) == c \notin ControlChars

escape_default(c) == IF c = "\t" THEN <<"\\", "t">> ELSE <<"\\", "n">>

escape(string, good, bad) ==
    IF \A i \in 1..Len(string) : is_printable(string[i])
    THEN <<Frag(string, good)>>
    ELSE [i \in 1..Len(string) |->
            IF is_printable(string[i]) THEN Frag(<<string[i]>>, good)
            ELSE Frag(escape_default(string[i]), bad)]

----------------------------------------------------------------------------
(* fs::File, as file_name.rs reads it: the pub fields name, path and       *)
(* parent_dir, the kind predicates and link_target().                      *)

KindPredicates ==
    {"is_directory", "is_executable_file", "is_link", "is_pipe",
     "is_block_device", "is_char_device", "is_socket", "is_file"}

is_directory(f)       == f.kind["is_directory"]
is_executable_file(f) == f.kind["is_executable_file"]
is_link(f)            == f.kind["is_link"]
is_pipe(f)            == f.kind["is_pipe"]
is_block_device(f)    == f.kind["is_block_device"]
is_char_device(f)     == f.kind["is_char_device"]
is_socket(f)          == f.kind["is_socket"]
is_file(f)            == f.kind["is_file"]

link_target(f) == f.link_target

\* FileTarget
TargetOk(f)     == [tag |-> "Ok", file |-> f]
TargetBroken(p) == [tag |-> "Broken", path |-> p]
TargetErr       == [tag |-> "Err"]

is_broken(t) == t.tag = "Broken"

----------------------------------------------------------------------------
(* FileColours: NoFileColours, a source outside this file (which answers   *)
(* what it was built to answer), and the pair (A, B).                      *)

NoFileColours == [tag |-> "NoFileColours"]

Source(ans) == [tag |-> "Source", ans |-> ans]

Pair(a, b) == [tag |-> "Pair", a |-> a, b |-> b]

\* impl FileColours for (A, B), given what A and B answer
PairColourFileSwapped(a, b) == or_else(b, a)

PairColourFile(a, b) == or_else(a, b)

RECURSIVE colour_file(_, _)
colour_file(e, file) ==
    CASE e.tag = "NoFileColours" -> None
      [] e.tag = "Source"        -> e.ans
      [] e.tag = "Pair"          ->
            PairColourFile(colour_file(e.a, file), colour_file(e.b, file))

----------------------------------------------------------------------------
(* FileStyle::for_file and FileName::with_link_paths.                      *)

JustFilenames == "JustFilenames"
FullLinkPaths == "FullLinkPaths"
AddFileIndicators == "AddFileIndicators"

for_file(style_classify, style_exts, file) ==
    [file       |-> file,
     link_style |-> JustFilenames,
     classify   |-> style_classify,
     exts       |-> style_exts,
     target     |-> IF is_link(file) THEN Some(link_target(file)) ELSE None]

with_link_paths(self) == [self EXCEPT !.link_style = FullLinkPaths]

----------------------------------------------------------------------------
(* FileName::style and FileName::kind_style.                               *)

\* kind_style() with its first two arms exchanged.
kind_style_executable_first(self) ==
    LET f == self.file IN
    IF is_executable_file(f)      THEN Some("executable_file")
    ELSE IF is_directory(f)       THEN Some("directory")
    ELSE IF is_link(f)            THEN Some("symlink")
    ELSE IF is_pipe(f)            THEN Some("pipe")
    ELSE IF is_block_device(f)    THEN Some("block_device")
    ELSE IF is_char_device(f)     THEN Some("char_device")
    ELSE IF is_socket(f)          THEN Some("socket")
    ELSE IF ~is_file(f)           THEN Some("special")
    ELSE None

kind_style(self) ==
    LET f == self.file IN
    IF is_directory(f)            THEN Some("directory")
    ELSE IF is_executable_file(f) THEN Some("executable_file")
    ELSE IF is_link(f)            THEN Some("symlink")
    ELSE IF is_pipe(f)            THEN Some("pipe")
    ELSE IF is_block_device(f)    THEN Some("block_device")
    ELSE IF is_char_device(f)     THEN Some("char_device")
    ELSE IF is_socket(f)          THEN Some("socket")
    ELSE IF ~is_file(f)           THEN Some("special")
    ELSE None

\* The first rule of style() without its test of link_style.
broken_link_rule_any_style(self) ==
    is_some(self.target) /\ is_broken(self.target.v)

\* The first rule of style(): a broken link, where its target is not shown.
broken_link_rule(self) ==
    /\ self.link_style = JustFilenames
    /\ is_some(self.target)
    /\ is_broken(self.target.v)

\* Whether style() calls self.exts.colour_file: the closure given to
\* or_else runs only when kind_style() is None.
consults_exts(self) == ~broken_link_rule(self) /\ is_none(kind_style(self))

style(self) ==
    IF broken_link_rule(self) THEN "broken_symlink"
    ELSE unwrap_or_else(
            IF is_some(kind_style(self)) THEN kind_style(self)
            ELSE colour_file(self.exts, self.file),
            "normal")

----------------------------------------------------------------------------
(* The icon rules of coloured_file_name, in the order of its else-if chain: *)
(* the keys of each array and the glyph it gives.                            *)

IconRules ==
  << [keys |-> << <<"z", "i", "p">>, <<"t", "a", "r">>, <<"g", "z">>, <<"r", "a", "r">> >>, glyph |-> "U+F410"],
     [keys |-> << <<"y", "m", "l">>, <<"y", "a", "m", "l">> >>, glyph |-> "U+F481"],
     [keys |-> << <<"x", "m", "l">>, <<"x", "u", "l">> >>, glyph |-> "U+E619"],
     [keys |-> << <<"x", "l", "s">>, <<"x", "l", "s", "x">>, <<"c", "s", "v">>, <<"g", "s", "h", "e", "e", "t">> >>, glyph |-> "U+F17A"],
     [keys |-> << <<"i", "n", "i">>, <<"e", "x", "e">>, <<"b", "a", "t">> >>, glyph |-> "U+F481"],
     [keys |-> << <<"w", "e", "b", "m">>, <<"o", "g", "v">>, <<"m", "p", "4">>, <<"m", "k", "v">>, <<"a", "v", "i">> >>, glyph |-> "U+F03D"],
     [keys |-> << <<"s", "t", "y", "l">>, <<"s", "t", "y", "l", "u", "s">>, <<"t", "e", "x">> >>, glyph |-> "U+E600"],
     [keys |-> << <<"z", "s", "h", "r", "c">>, <<"z", "s", "h", "-", "t", "h", "e", "m", "e">>, <<"z", "s", "h">>, <<"s", "h">>, <<"f", "i", "s", "h">>, <<"b", "a", "s", "h", "r", "c">>, <<"b", "a", "s", "h", "_", "p", "r", "o", "f", "i", "l", "e">>, <<"b", "a", "s", "h", "_", "h", "i", "s", "t", "o", "r", "y">>, <<"b", "a", "s", "h">> >>, glyph |-> "U+F489"],
     [keys |-> << <<"r", "b">>, <<"r", "u">>, <<"r", "s", "p", "e", "c">>, <<"r", "s", "p", "e", "c", "_", "s", "t", "a", "t", "u", "s">>, <<"r", "s", "p", "e", "c", "_", "p", "a", "r", "a", "l", "l", "e", "l">>, <<"R", "a", "k", "e", "f", "i", "l", "e">>, <<"P", "r", "o", "c", "f", "i", "l", "e">>, <<"l", "o", "c", "k">>, <<"g", "e", "m", "s", "p", "e", "c">>, <<"G", "e", "m", "f", "i", "l", "e">>, <<"G", "u", "a", "r", "d", "f", "i", "l", "e">> >>, glyph |-> "U+E21E"],
     [keys |-> << <<"b", "m", "p">>, <<"g", "i", "f">>, <<"i", "c", "o">>, <<"p", "n", "g">>, <<"j", "p", "g">>, <<"j", "p", "e", "g">>, <<"s", "v", "g">> >>, glyph |-> "U+F1C5"],
     [keys |-> << <<"e", "o", "t">>, <<"o", "t", "f">>, <<"t", "t", "f">>, <<"w", "o", "f", "f">>, <<"w", "o", "f", "f", "2">> >>, glyph |-> "U+F031"],
     [keys |-> << <<"m", "d">>, <<"t", "x", "t">>, <<"r", "s", "t">>, <<"r", "d", "o", "c">> >>, glyph |-> "U+F48A"],
     [keys |-> << <<"e", "r", "b">>, <<"s", "l", "i", "m">> >>, glyph |-> "U+E73B"],
     [keys |-> << <<"R", "D", "a", "t", "a">>, <<"r", "d", "s">>, <<"r">> >>, glyph |-> "U+F25D"],
     [keys |-> << <<"p", "y">>, <<"p", "y", "c">> >>, glyph |-> "U+E606"],
     [keys |-> << <<"p", "p", "t">>, <<"p", "p", "t", "x">>, <<"g", "s", "l", "i", "d", "e", "s">> >>, glyph |-> "U+F1C4"],
     [keys |-> << <<"g", "i", "t">>, <<"g", "i", "t", "i", "g", "n", "o", "r", "e">>, <<"g", "i", "t", "c", "o", "n", "f", "i", "g">>, <<"g", "i", "t", "i", "g", "n", "o", "r", "e", "_", "g", "l", "o", "b", "a", "l">> >>, glyph |-> "U+F1D3"],
     [keys |-> << <<"a", "p", "k">>, <<"g", "r", "a", "d", "l", "e">> >>, glyph |-> "U+E70E"],
     [keys |-> << <<"d", "s", "_", "s", "t", "o", "r", "e">>, <<"l", "o", "c", "a", "l", "i", "z", "e", "d">> >>, glyph |-> "U+F179"],
     [keys |-> << <<"m", "p", "3">>, <<"o", "g", "g">> >>, glyph |-> "U+F001"],
     [keys |-> << <<"d", "o", "c">>, <<"d", "o", "c", "x">>, <<"g", "d", "o", "c">> >>, glyph |-> "U+F1C2"],
     [keys |-> << <<"t", "s", "x">>, <<"j", "s", "x">> >>, glyph |-> "U+E7BA"],
     [keys |-> << <<"p", "r", "o", "p", "e", "r", "t", "i", "e", "s">>, <<"j", "s", "o", "n">> >>, glyph |-> "U+E60B"],
     [keys |-> << <<"j", "a", "r">>, <<"j", "a", "v", "a">> >>, glyph |-> "U+E204"],
     [keys |-> << <<"l", "h", "s">>, <<"h", "s">> >>, glyph |-> "U+E777"],
     [keys |-> << <<"m", "o", "b", "i">>, <<"e", "b", "o", "o", "k">>, <<"e", "p", "u", "b">> >>, glyph |-> "U+E28B"],
     [keys |-> << <<"s", "c", "s", "s">>, <<"c", "s", "s">> >>, glyph |-> "U+E749"],
     [keys |-> << <<"e", "d", "i", "t", "o", "r", "c", "o", "n", "f", "i", "g">>, <<"c", "o", "n", "f">> >>, glyph |-> "U+E615"],
     [keys |-> << <<"v", "i", "m">> >>, glyph |-> "U+E62B"],
     [keys |-> << <<"t", "w", "i", "g">> >>, glyph |-> "U+E61C"],
     [keys |-> << <<"t", "s">> >>, glyph |-> "U+E628"],
     [keys |-> << <<"t", "e", "x">> >>, glyph |-> "U+E600"],
     [keys |-> << <<"s", "q", "l", "i", "t", "e", "3">> >>, glyph |-> "U+E7C4"],
     [keys |-> << <<"s", "c", "a", "l", "a">> >>, glyph |-> "U+E737"],
     [keys |-> << <<"s", "a", "s", "s">> >>, glyph |-> "U+E603"],
     [keys |-> << <<"r", "s", "s">> >>, glyph |-> "U+F09E"],
     [keys |-> << <<"r", "d", "b">> >>, glyph |-> "U+E76D"],
     [keys |-> << <<"p", "s", "d">> >>, glyph |-> "U+E7B8"],
     [keys |-> << <<"p", "l">> >>, glyph |-> "U+E769"],
     [keys |-> << <<"p", "h", "p">> >>, glyph |-> "U+E73D"],
     [keys |-> << <<"p", "d", "f">> >>, glyph |-> "U+F1C1"],
     [keys |-> << <<"n", "p", "m", "i", "g", "n", "o", "r", "e">> >>, glyph |-> "U+E71E"],
     [keys |-> << <<"m", "u", "s", "t", "a", "c", "h", "e">> >>, glyph |-> "U+E60F"],
     [keys |-> << <<"l", "u", "a">> >>, glyph |-> "U+E620"],
     [keys |-> << <<"l", "o", "g">> >>, glyph |-> "U+F18D"],
     [keys |-> << <<"l", "e", "s", "s">> >>, glyph |-> "U+E758"],
     [keys |-> << <<"j", "s">> >>, glyph |-> "U+E74E"],
     [keys |-> << <<"i", "m", "l">> >>, glyph |-> "U+E7B5"],
     [keys |-> << <<"h", "t", "m", "l">> >>, glyph |-> "U+F13B"],
     [keys |-> << <<"g", "o">> >>, glyph |-> "U+E626"],
     [keys |-> << <<"g", "f", "o", "r", "m">> >>, glyph |-> "U+F298"],
     [keys |-> << <<"e", "r", "l">> >>, glyph |-> "U+E7B1"],
     [keys |-> << <<"a", "i">> >>, glyph |-> "U+E7B4"],
     [keys |-> << <<"a", "v", "r", "o">> >>, glyph |-> "U+E60B"],
     [keys |-> << <<"c">> >>, glyph |-> "U+E61E"],
     [keys |-> << <<"c", "l", "j">> >>, glyph |-> "U+E768"],
     [keys |-> << <<"c", "o", "f", "f", "e", "e">> >>, glyph |-> "U+F0F4"],
     [keys |-> << <<"c", "p", "p">> >>, glyph |-> "U+E61D"],
     [keys |-> << <<"d">> >>, glyph |-> "U+E7AF"],
     [keys |-> << <<"d", "a", "r", "t">> >>, glyph |-> "U+E798"],
     [keys |-> << <<"d", "b">> >>, glyph |-> "U+F1C0"],
     [keys |-> << <<"d", "i", "f", "f">> >>, glyph |-> "U+F440"],
     [keys |-> << <<"e", "n", "v">>, <<"c", "o", "n", "f", "i", "g">> >>, glyph |-> "U+F462"] >>

DirectoryGlyph == "U+F115"

DefaultGlyph == "U+F15B"

Dot == "."

\* str::split("."): the segments between the dots, at least one.
RECURSIVE split(_)
split(s) ==
    IF \A i \in 1..Len(s) : s[i] # Dot THEN <<s>>
    ELSE LET i == CHOOSE k \in 1..Len(s) :
                    s[k] = Dot /\ \A j \in 1..(k - 1) : s[j] # Dot
         IN  <<SubSeq(s, 1, i - 1)>> \o split(SubSeq(s, i + 1, Len(s)))

\* The first of the words instead of the last.
first_word(words) == words[1]

last(words) == words[Len(words)]

contains(array, format) == \E i \in 1..Len(array) : array[i] = format

\* The else-if chain from rule i on.
RECURSIVE rule_glyph(_, _)
rule_glyph(i, format) ==
    IF i > Len(IconRules) THEN DefaultGlyph
    ELSE IF contains(IconRules[i].keys, format) THEN IconRules[i].glyph
    ELSE rule_glyph(i + 1, format)

\* The icon with the directory test after the rules.
icon_rules_first(self) ==
    LET format == last(split(self.file.name))
        glyph == rule_glyph(1, format)
    IN  <<IF glyph # DefaultGlyph THEN glyph
          ELSE IF is_directory(self.file) THEN DirectoryGlyph ELSE DefaultGlyph,
          " ", " ">>

icon(self) ==
    LET format == last(split(self.file.name)) IN
    <<IF is_directory(self.file) THEN DirectoryGlyph ELSE rule_glyph(1, format),
      " ", " ">>

----------------------------------------------------------------------------
(* FileName::coloured_file_name, add_parent_bits, classify_char and paint. *)

coloured_file_name(self) ==
    escape(icon(self) \o self.file.name, style(self), "control_char")

\* add_parent_bits() without the case of the root.
add_parent_bits_no_root_case(self, parent_path) ==
    IF components_count(parent_path) >= 1
    THEN escape(path_to_string(parent_path), "symlink_path", "control_char")
            \o <<Frag(<<Slash>>, "symlink_path")>>
    ELSE <<>>

add_parent_bits(self, parent_path) ==
    LET coconut == components_count(parent_path) IN
    IF coconut = 1 /\ has_root(parent_path)
    THEN <<Frag(<<Slash>>, "symlink_path")>>
    ELSE IF coconut >= 1
    THEN escape(path_to_string(parent_path), "symlink_path", "control_char")
            \o <<Frag(<<Slash>>, "symlink_path")>>
    ELSE <<>>

\* classify_char() with its first two arms exchanged.
classify_char_directory_first(self) ==
    LET f == self.file IN
    IF is_directory(f)            THEN Some("/")
    ELSE IF is_executable_file(f) THEN Some("*")
    ELSE IF is_pipe(f)            THEN Some("|")
    ELSE IF is_link(f)            THEN Some("@")
    ELSE IF is_socket(f)          THEN Some("=")
    ELSE None

classify_char(self) ==
    LET f == self.file IN
    IF is_executable_file(f) THEN Some("*")
    ELSE IF is_directory(f)  THEN Some("/")
    ELSE IF is_pipe(f)       THEN Some("|")
    ELSE IF is_link(f)       THEN Some("@")
    ELSE IF is_socket(f)     THEN Some("=")
    ELSE None

\* paint(), lines 122-126: the parent path of an entry given without a
\* parent directory.
parent_bits(self) ==
    IF is_none(self.file.parent_dir) /\ is_some(parent(self.file.path))
    THEN add_parent_bits(self, parent(self.file.path).v)
    ELSE <<>>

\* paint(), lines 128-138: the entry's own name.
name_bits(self) ==
    IF self.file.name # <<>> THEN coloured_file_name(self) ELSE <<>>

\* The target's FileName made the way for_file makes one.
target_file_name_as_for_file(self, t) ==
    for_file(JustFilenames, self.exts, t)

\* paint(), lines 152-159: the FileName that renders the name of an Ok target.
target_file_name(self, t) ==
    [file       |-> t,
     target     |-> None,
     link_style |-> FullLinkPaths,
     classify   |-> JustFilenames,
     exts       |-> self.exts]

\* paint(), lines 142-165.
ok_bits(self, t) ==
    <<Frag(<<" ">>, "default"), Frag(<<"-", ">">>, "normal_arrow"),
      Frag(<<" ">>, "default")>>
    \o (IF is_some(parent(t.path)) THEN add_parent_bits(self, parent(t.path).v)
        ELSE <<>>)
    \o (IF t.name # <<>> THEN coloured_file_name(target_file_name(self, t))
        ELSE <<>>)

\* The Broken arm with the arrow and path styles of the Ok arm.
broken_bits_as_ok(self, broken_path) ==
    <<Frag(<<" ">>, "default"), Frag(<<"-", ">">>, "normal_arrow"),
      Frag(<<" ">>, "default")>>
    \o escape(path_to_string(broken_path), "symlink_path", "control_char")

\* paint(), lines 167-172.
broken_bits(self, broken_path) ==
    <<Frag(<<" ">>, "default"), Frag(<<"-", ">">>, "broken_symlink"),
      Frag(<<" ">>, "default")>>
    \o escape(path_to_string(broken_path), "broken_filename",
              "broken_control_char")

\* paint(), line 140: whether the link branch is the one taken.
shows_link(self) == self.link_style = FullLinkPaths /\ is_some(self.target)

\* paint(), lines 179-183.
class_bits(self) ==
    IF self.classify = AddFileIndicators /\ is_some(classify_char(self))
    THEN <<Frag(<<classify_char(self).v>>, "default")>>
    ELSE <<>>

\* The link branch with the Err arm falling back to the classification.
link_bits_err_classifies(self) ==
    LET t == self.target.v IN
    CASE t.tag = "Ok"     -> ok_bits(self, t.file)
      [] t.tag = "Broken" -> broken_bits(self, t.path)
      [] t.tag = "Err"    -> class_bits(self)

\* paint(), lines 140-178.
link_bits(self) ==
    LET t == self.target.v IN
    CASE t.tag = "Ok"     -> ok_bits(self, t.file)
      [] t.tag = "Broken" -> broken_bits(self, t.path)
      [] t.tag = "Err"    -> <<>>

\* paint() with the classification as a step of its own.
paint_then_classify(self) ==
    parent_bits(self) \o name_bits(self)
    \o (IF shows_link(self) THEN link_bits(self) ELSE <<>>)
    \o class_bits(self)

paint(self) ==
    parent_bits(self) \o name_bits(self)
    \o (IF shows_link(self) THEN link_bits(self) ELSE class_bits(self))

\* The FileName paint() builds for its target, when it builds one.
painted_target(self) ==
    IF /\ shows_link(self)
       /\ self.target.v.tag = "Ok"
       /\ self.target.v.file.name # <<>>
    THEN Some(target_file_name(self, self.target.v.file))
    ELSE None

----------------------------------------------------------------------------
(* The inputs: the files a listing can hand to for_file.                   *)

Names ==
    {<<>>,
     <<"s", "r", "c">>,
     <<"a", ".", "z", "i", "p">>,
     <<"x", ".", "m", "d">>,
     <<"x", ".", "M", "D">>,
     <<"a", ".", "t", "e", "x">>,
     <<"a", ".", "s", "t", "y", "l">>,
     <<"t", "e", "x">>,
     <<"a", "\t", "b">>}

LinkNames == {<<>>, <<"b", "a", "d">>, <<"a", ".", "z", "i", "p">>}

TargetNames == {<<>>, <<"x", ".", "m", "d">>}

ComponentPool ==
    << <<"h", "o", "m", "e">>, <<"u", "s", "e", "r">>, <<"d", "o", "c", "s">> >>

Component(i) == ComponentPool[((i - 1) % Len(ComponentPool)) + 1]

Path(root, n) == [root |-> root, comps |-> [i \in 1..n |-> Component(i)]]

Paths == {Path(r, n) : r \in BOOLEAN, n \in 0..MaxDepth}

\* parent_dir and path: an entry found in a directory has the directory as
\* parent_dir; an entry named on the command line has none.
Locations ==
    {[parent_dir |-> Some("Dir"), path |-> Path(FALSE, 2)]}
    \cup {[parent_dir |-> None, path |-> p] : p \in Paths}

TargetLocations ==
    {[parent_dir |-> Some("Dir"), path |-> Path(TRUE, 2)],
     [parent_dir |-> None, path |-> Path(TRUE, 1)],
     [parent_dir |-> None, path |-> Path(TRUE, 0)]}

BrokenPaths ==
    {[root |-> TRUE,
      comps |-> << <<"t", "m", "p">>, <<"m", "i", "s", "s", "i", "n", "g">> >>],
     [root |-> FALSE, comps |-> << <<"g", "o", "\n", "n", "e">> >>]}

Kinds ==
    {k \in [KindPredicates -> BOOLEAN] :
        Cardinality({p \in KindPredicates : k[p]}) <= MaxKinds}

PlainKind == [p \in KindPredicates |-> p = "is_file"]

DirectoryKind == [p \in KindPredicates |-> p = "is_directory"]

LinkKind == [p \in KindPredicates |-> p = "is_link"]

File(name, loc, kind, target) ==
    [name |-> name, path |-> loc.path, parent_dir |-> loc.parent_dir,
     kind |-> kind, link_target |-> target]

\* What a link resolves to.  read_link fails on what is not a link.
TargetFiles ==
    {File(n, l, k, TargetErr) :
        n \in TargetNames, l \in TargetLocations, k \in {PlainKind, DirectoryKind}}
    \cup {File(n, l, LinkKind, TargetBroken(Path(TRUE, 1))) :
        n \in TargetNames, l \in TargetLocations}

Targets ==
    {TargetErr} \cup {TargetBroken(p) : p \in BrokenPaths}
    \cup {TargetOk(t) : t \in TargetFiles}

Files ==
    {File(n, l, k, TargetErr) :
        n \in Names, l \in Locations, k \in {k \in Kinds : ~k["is_link"]}}
    \cup {File(n, l, k, t) :
        n \in LinkNames, l \in Locations, k \in {k \in Kinds : k["is_link"]},
        t \in Targets}

Leaves == {NoFileColours, Source(Some("ext_a")), Source(Some("ext_b"))}

\* The FileColours made of n pairs.
RECURSIVE Composed(_)
Composed(n) ==
    IF n = 0 THEN Leaves
    ELSE UNION {{Pair(a, b) : a \in Composed(i), b \in Composed(n - 1 - i)} :
                    i \in 0..(n - 1)}

AllExts == UNION {Composed(n) : n \in 0..MaxNest}

SomeExts == {NoFileColours, Pair(NoFileColours, Source(Some("ext_a")))}

Classifies == {JustFilenames, AddFileIndicators}

----------------------------------------------------------------------------
(* The state machine: a FileStyle is built, for_file makes a FileName,     *)
(* with_link_paths may be applied to it, and it is painted, styled, or its *)
(* extension colours are looked up.                                        *)

Start(E) ==
    /\ classify \in Classifies
    /\ exts \in E
    /\ fn = None
    /\ pc = "style"
    /\ bits = <<>>
    /\ target_fn = None
    /\ styled = None
    /\ consulted = FALSE
    /\ coloured = None

ForFile(F) ==
    /\ pc = "style"
    /\ \E file \in F : fn' = for_file(classify, exts, file)
    /\ pc' = "name"
    /\ UNCHANGED <<classify, exts, bits, target_fn, styled, consulted, coloured>>

WithLinkPaths ==
    /\ pc = "name"
    /\ fn' = with_link_paths(fn)
    /\ UNCHANGED <<classify, exts, pc, bits, target_fn, styled, consulted, coloured>>

PaintCall ==
    /\ pc = "name"
    /\ bits' = paint(fn)
    /\ target_fn' = painted_target(fn)
    /\ pc' = "painted"
    /\ UNCHANGED <<classify, exts, fn, styled, consulted, coloured>>

StyleCall ==
    /\ pc = "name"
    /\ styled' = Some(style(fn))
    /\ consulted' = consults_exts(fn)
    /\ pc' = "styled"
    /\ UNCHANGED <<classify, exts, fn, bits, target_fn, coloured>>

ColourFileCall ==
    /\ pc = "name"
    /\ coloured' = colour_file(fn.exts, fn.file)
    /\ pc' = "coloured"
    /\ UNCHANGED <<classify, exts, fn, bits, target_fn, styled, consulted>>

Init == Start(SomeExts)

Next ==
    \/ ForFile(Files)
    \/ WithLinkPaths
    \/ PaintCall
    \/ StyleCall
    \/ ColourFileCall

Spec == Init /\ [][Next]_vars

\* The same program over every composed FileColours and a few files.
ExtFiles ==
    {File(n, [parent_dir |-> Some("Dir"), path |-> Path(FALSE, 2)], k, TargetErr) :
        n \in {<<"x", ".", "m", "d">>}, k \in {PlainKind, DirectoryKind}}

InitExts == Start(AllExts)

NextExts ==
    \/ ForFile(ExtFiles)
    \/ WithLinkPaths
    \/ PaintCall
    \/ StyleCall
    \/ ColourFileCall

SpecExts == InitExts /\ [][NextExts]_vars

----------------------------------------------------------------------------
(* What the properties below read off a painted result.                    *)

Arrow == <<"-", ">">>

ClassChars == {<<"*">>, <<"/">>, <<"|">>, <<"@">>, <<"=">>}

\* Some fragment is the arrow of a link-target display.
HasArrow(b) ==
    \E i \in 1..Len(b) :
        b[i].text = Arrow /\ b[i].style \in {"normal_arrow", "broken_symlink"}

ArrowCount(b) == Cardinality({i \in 1..Len(b) : b[i].text = Arrow})

\* The last fragment is a classification character in Style::default().
HasSuffix(b) ==
    /\ Len(b) > 0
    /\ b[Len(b)].style = "default"
    /\ b[Len(b)].text \in ClassChars

\* The styles of the kind predicates, in the order kind_style tests them.
KindOrder ==
    << <<"is_directory", "directory">>,
       <<"is_executable_file", "executable_file">>,
       <<"is_link", "symlink">>,
       <<"is_pipe", "pipe">>,
       <<"is_block_device", "block_device">>,
       <<"is_char_device", "char_device">>,
       <<"is_socket", "socket">> >>

\* The characters of the kind predicates, in the order classify_char tests
\* them.
ClassOrder ==
    << <<"is_executable_file", "*">>,
       <<"is_directory", "/">>,
       <<"is_pipe", "|">>,
       <<"is_link", "@">>,
       <<"is_socket", "=">> >>

\* The entries of an order whose predicate is true of the file.
Matches(order, file) == {i \in 1..Len(order) : file.kind[order[i][1]]}

FirstMatch(order, file) ==
    LET m == Matches(order, file) IN
    order[CHOOSE i \in m : \A j \in m : i <= j][2]

\* What the kind, extension, normal chain gives for a file.
ChainStyle(file, e) ==
    IF Matches(KindOrder, file) # {} THEN FirstMatch(KindOrder, file)
    ELSE IF ~file.kind["is_file"] THEN "special"
    ELSE IF is_some(colour_file(e, file)) THEN colour_file(e, file).v
    ELSE "normal"

\* Link display is on and the FileName has a target.
LinkShown == fn.link_style = FullLinkPaths /\ is_some(fn.target)

SpaceFrag == Frag(<<" ">>, "default")

SlashFrag == Frag(<<Slash>>, "symlink_path")

RootPath == [root |-> TRUE, comps |-> <<>>]

\* The parent-path prefix of a path whose parent has a component.
PrefixOf(path) ==
    IF is_some(parent(path)) /\ components_count(parent(path).v) >= 1
    THEN IF parent(path).v = RootPath THEN <<SlashFrag>>
         ELSE escape(path_to_string(parent(path).v), "symlink_path",
                     "control_char") \o <<SlashFrag>>
    ELSE <<>>

\* The name fragments of a file painted in a style.
NameOf(file, s) ==
    IF file.name = <<>> THEN <<>>
    ELSE escape(icon([file |-> file]) \o file.name, s, "control_char")

\* The prefix and name of the entry being painted.
OwnPrefix == IF is_none(fn.file.parent_dir) THEN PrefixOf(fn.file.path) ELSE <<>>

OwnName == NameOf(fn.file, ChainStyle(fn.file, fn.exts))

----------------------------------------------------------------------------
\* C1: one paint() never returns both a link-target display (the "->"
\* arrow and what follows it) and a classification suffix; a suffix is
\* there only when the link-display branch was not taken.
C1_ArrowExcludesSuffix ==
    pc = "painted" =>
        /\ ~(HasArrow(bits) /\ HasSuffix(bits))
        /\ HasSuffix(bits) => ~LinkShown
        /\ HasArrow(bits) => LinkShown

C1_Witness ==
    /\ pc = "painted"
    /\ fn.classify = AddFileIndicators
    /\ LinkShown
    /\ fn.target.v.tag = "Ok"
    /\ is_some(classify_char(fn))
    /\ HasArrow(bits)
    /\ ~HasSuffix(bits)

----------------------------------------------------------------------------
----------------------------------------------------------------------------
\* C3: when the broken-link rule does not apply, style() is the colour of
\* the first true predicate in the order directory, executable file, link,
\* pipe, block device, char device, socket, not-a-plain-file; the extension
\* map is consulted only when none of them is true, and colours.normal is
\* the result only when the map then answers None.  A directory whose
\* extension the map knows is colours.directory.
C3_KindBeforeExtension ==
    (/\ pc = "styled"
     /\ ~(/\ fn.link_style = JustFilenames
          /\ is_some(fn.target)
          /\ fn.target.v.tag = "Broken")) =>
        LET f == fn.file
            structural == Matches(KindOrder, f) # {} \/ ~f.kind["is_file"]
            answer == colour_file(fn.exts, f)
        IN  /\ Matches(KindOrder, f) # {} => styled.v = FirstMatch(KindOrder, f)
            /\ (Matches(KindOrder, f) = {} /\ ~f.kind["is_file"])
                    => styled.v = "special"
            /\ consulted <=> ~structural
            /\ (~structural /\ is_some(answer)) => styled = answer
            /\ styled.v = "normal" <=> (~structural /\ is_none(answer))
            /\ f.kind["is_directory"] => styled.v = "directory"

C3_Witness ==
    /\ pc = "styled"
    /\ fn.link_style = JustFilenames
    /\ is_directory(fn.file)
    /\ is_executable_file(fn.file)
    /\ colour_file(fn.exts, fn.file) = Some("ext_a")
    /\ styled = Some("directory")
    /\ ~consulted

----------------------------------------------------------------------------
\* C4: with link display on and a target of Err, paint() returns the
\* parent-path prefix (if any) and the name fragment and nothing else: no
\* arrow, no space, no target text, and no classification suffix even when
\* classify is AddFileIndicators.
C4_ErrTargetAddsNothing ==
    (/\ pc = "painted"
     /\ fn.link_style = FullLinkPaths
     /\ fn.target = Some(TargetErr)) =>
        /\ bits = OwnPrefix \o OwnName
        /\ ~HasArrow(bits)
        /\ ~HasSuffix(bits)
        /\ \A i \in 1..Len(bits) : bits[i] # SpaceFrag

C4_Witness ==
    /\ pc = "painted"
    /\ fn.link_style = FullLinkPaths
    /\ fn.target = Some(TargetErr)
    /\ fn.classify = AddFileIndicators
    /\ is_some(classify_char(fn))
    /\ fn.file.name # <<>>
    /\ Len(bits) = 1

----------------------------------------------------------------------------
\* What paint() appends for an Ok target: the arrow, the target's
\* parent-path prefix whatever its parent_dir, and its name in its own
\* chain style.
OkTail(t) ==
    <<SpaceFrag, Frag(Arrow, "normal_arrow"), SpaceFrag>>
    \o PrefixOf(t.path) \o NameOf(t, ChainStyle(t, fn.exts))

\* C5 as stated: the target's name is rendered by a fresh context in which
\* link display is off and classify is JustFilenames, so that there is one
\* arrow, no nested target and no classification character.
C5_TargetContextLinksOff ==
    (pc = "painted" /\ LinkShown /\ fn.target.v.tag = "Ok") =>
        /\ is_some(target_fn) =>
                /\ target_fn.v.link_style = JustFilenames
                /\ target_fn.v.classify = JustFilenames
        /\ ArrowCount(bits) = 1
        /\ ~HasSuffix(bits)

\* C5, amended: the target's name is rendered by coloured_file_name alone,
\* on a fresh FileName whose target is None, whose classify is JustFilenames
\* and whose link_style is FullLinkPaths; the target's parent-path prefix
\* is emitted whatever its parent_dir.  So the output holds one arrow, no
\* nested target and no classification character, even when the target is
\* itself a link or a directory.
C5_TargetNameOnly ==
    (pc = "painted" /\ LinkShown /\ fn.target.v.tag = "Ok") =>
        LET t == fn.target.v.file IN
        /\ is_some(target_fn) <=> t.name # <<>>
        /\ is_some(target_fn) =>
                /\ target_fn.v.file = t
                /\ target_fn.v.target = None
                /\ target_fn.v.link_style = FullLinkPaths
                /\ target_fn.v.classify = JustFilenames
        /\ bits = OwnPrefix \o OwnName \o OkTail(t)
        /\ ArrowCount(bits) = 1
        /\ ~HasSuffix(bits)

C5_Witness ==
    /\ pc = "painted"
    /\ LinkShown
    /\ fn.target.v.tag = "Ok"
    /\ fn.classify = AddFileIndicators
    /\ is_link(fn.target.v.file)
    /\ is_broken(link_target(fn.target.v.file))
    /\ is_some(fn.target.v.file.parent_dir)
    /\ is_some(target_fn)
    /\ bits[Len(bits)].style = "symlink"

----------------------------------------------------------------------------
\* C6: with link display on and a target of Broken(path), paint() appends
\* after the name fragment exactly " " in the default style, "->" in
\* colours.broken_symlink, " " in the default style, and the broken path
\* escaped with colours.broken_filename, its control characters in
\* colours.broken_control_char; the link's own name is in the style of the
\* kind chain (colours.symlink, unless the entry also tests as a directory
\* or an executable file), not colours.broken_symlink.
C6_BrokenTargetTail ==
    (/\ pc = "painted"
     /\ fn.link_style = FullLinkPaths
     /\ is_some(fn.target)
     /\ fn.target.v.tag = "Broken") =>
        LET own == OwnPrefix \o OwnName
            shown == path_to_string(fn.target.v.path)
        IN  /\ bits = own
                    \o <<SpaceFrag, Frag(Arrow, "broken_symlink"), SpaceFrag>>
                    \o escape(shown, "broken_filename", "broken_control_char")
            /\ \A i \in 1..Len(own) : bits[i].style # "broken_symlink"
            /\ (/\ fn.file.name # <<>>
                /\ ~is_directory(fn.file)
                /\ ~is_executable_file(fn.file))
                    => bits[Len(OwnPrefix) + 1].style = "symlink"
            /\ \A i \in (Len(own) + 4)..Len(bits) :
                    bits[i].style \in {"broken_filename", "broken_control_char"}

C6_Witness ==
    /\ pc = "painted"
    /\ fn.link_style = FullLinkPaths
    /\ is_some(fn.target)
    /\ fn.target.v.tag = "Broken"
    /\ fn.file.name # <<>>
    /\ ~is_directory(fn.file)
    /\ ~is_executable_file(fn.file)
    /\ \E i \in 1..Len(bits) : bits[i].style = "broken_control_char"
    /\ \E i \in 1..Len(bits) : bits[i].style = "symlink"

----------------------------------------------------------------------------
\* C7: when link display is off or the entry has no target (for_file gives
\* one only to links, so a non-link with with_link_paths is included) and
\* classify is AddFileIndicators, paint() ends with exactly one character
\* in the default style, the first match of: executable file "*",
\* directory "/", pipe "|", link "@", socket "="; for any other kind, and
\* whenever classify is JustFilenames, nothing is appended.
C7_ClassifySuffix ==
    (pc = "painted" /\ (fn.link_style = JustFilenames \/ ~is_link(fn.file))) =>
        LET f == fn.file
            own == OwnPrefix
                    \o NameOf(f, IF /\ is_link(f)
                                    /\ link_target(f).tag = "Broken"
                                 THEN "broken_symlink"
                                 ELSE ChainStyle(f, fn.exts))
        IN  IF fn.classify = AddFileIndicators /\ Matches(ClassOrder, f) # {}
            THEN bits = own
                    \o <<Frag(<<FirstMatch(ClassOrder, f)>>, "default")>>
            ELSE bits = own

C7_Witness ==
    /\ pc = "painted"
    /\ fn.link_style = FullLinkPaths
    /\ ~is_link(fn.file)
    /\ fn.classify = AddFileIndicators
    /\ is_directory(fn.file)
    /\ is_executable_file(fn.file)
    /\ bits[Len(bits)] = Frag(<<"*">>, "default")

----------------------------------------------------------------------------
\* The same sources paired the other way round: ((A, B), C) for
\* (A, (B, C)) and (A, (B, C)) for ((A, B), C).
Regrouped(e) ==
    IF e.tag = "Pair" /\ e.a.tag = "Pair"
    THEN Pair(e.a.a, Pair(e.a.b, e.b))
    ELSE IF e.tag = "Pair" /\ e.b.tag = "Pair"
    THEN Pair(Pair(e.a, e.b.a), e.b.b)
    ELSE e

\* C8: the lookup of (A, B) is A's answer whenever A answers Some(x),
\* whatever B answers, and is exactly B's answer whenever A answers None;
\* ((A, B), C) and (A, (B, C)) give the same result for every combination
\* of the three sources' answers.
C8_PairFirstThenSecond ==
    (pc = "coloured" /\ exts.tag = "Pair") =>
        LET a == colour_file(exts.a, fn.file)
            b == colour_file(exts.b, fn.file)
        IN  /\ is_some(a) => coloured = a
            /\ is_none(a) => coloured = b
            /\ coloured = colour_file(Regrouped(exts), fn.file)

C8_Witness ==
    /\ pc = "coloured"
    /\ exts = Pair(Pair(NoFileColours, Source(Some("ext_a"))),
                   Source(Some("ext_b")))
    /\ Regrouped(exts) # exts
    /\ coloured = Some("ext_a")

----------------------------------------------------------------------------
\* The first fragment belongs to a parent-path prefix (a name fragment
\* starts with its icon, in the style of the name; a link display starts
\* with a space in the default style).
HasPrefix(b) == Len(b) > 0 /\ b[1].style \in {"symlink_path", "control_char"}

\* Some fragment starts with an icon glyph, as every name fragment does.
Glyphs == {DirectoryGlyph, DefaultGlyph} \cup {IconRules[i].glyph : i \in 1..Len(IconRules)}

HasNameFragment(b) ==
    \E i \in 1..Len(b) : Len(b[i].text) > 0 /\ b[i].text[1] \in Glyphs

\* C9 as stated: the parent-path prefix is emitted exactly when the entry
\* has no parent_dir and its path has a parent.
C9_PrefixWheneverParent ==
    pc = "painted" =>
        (HasPrefix(bits)
            <=> (is_none(fn.file.parent_dir) /\ is_some(parent(fn.file.path))))

\* C9, amended: the parent-path prefix is emitted exactly when the entry
\* has no parent_dir and its path has a parent of at least one component
\* (the parent of a relative one-component path is the empty path, and
\* nothing is emitted for it): a single "/" in colours.symlink_path when
\* that parent is the root, otherwise the escaped parent path and then "/"
\* in colours.symlink_path.  The name fragment is emitted only when the
\* name is not empty: name "", path /home/user and no parent_dir give the
\* fragments of "/home/" and no name fragment.
C9_ParentPrefix ==
    pc = "painted" =>
        LET f == fn.file
            par == parent(f.path)
            due == /\ is_none(f.parent_dir)
                   /\ is_some(par)
                   /\ components_count(par.v) >= 1
            prefix == IF ~due THEN <<>>
                      ELSE IF par.v = RootPath THEN <<SlashFrag>>
                      ELSE escape(path_to_string(par.v), "symlink_path",
                                  "control_char") \o <<SlashFrag>>
        IN  /\ HasPrefix(bits) <=> due
            /\ Len(bits) >= Len(prefix)
            /\ SubSeq(bits, 1, Len(prefix)) = prefix
            /\ (due /\ par.v = RootPath) => ~HasPrefix(Tail(bits))
            /\ f.name = <<>> =>
                    ~HasNameFragment(SubSeq(bits, 1,
                        IF LinkShown /\ fn.target.v.tag # "Err"
                        THEN Len(prefix) + 1 ELSE Len(bits)))
            /\ f.name # <<>> => bits[Len(prefix) + 1].text[1] \in Glyphs
            /\ (/\ f.name = <<>>
                /\ f.path = Path(TRUE, 2)
                /\ is_none(f.parent_dir)
                /\ ~LinkShown)
                    => /\ SubSeq(bits, 1, 2) =
                            <<Frag(<<"/", "h", "o", "m", "e">>, "symlink_path"),
                              SlashFrag>>
                       /\ ~HasNameFragment(bits)

C9_Witness ==
    /\ pc = "painted"
    /\ fn.file.name = <<>>
    /\ fn.file.path = Path(TRUE, 2)
    /\ is_none(fn.file.parent_dir)
    /\ Len(bits) >= 2
    /\ bits[1] = Frag(<<"/", "h", "o", "m", "e">>, "symlink_path")
    /\ bits[2] = SlashFrag

----------------------------------------------------------------------------
\* C10: the icon of a directory is the directory glyph U+F115 for every
\* name, also a name whose last '.'-segment is a key of an icon rule, such
\* as "a.zip" or "x.md".
C10_DirectoryGlyph ==
    pc = "painted" =>
        /\ (is_directory(fn.file) /\ fn.file.name # <<>>)
                => bits[Len(OwnPrefix) + 1].text[1] = "U+F115"
        /\ (/\ LinkShown
            /\ fn.target.v.tag = "Ok"
            /\ is_directory(fn.target.v.file)
            /\ fn.target.v.file.name # <<>>)
                => bits[Len(OwnPrefix \o OwnName) + 3
                        + Len(PrefixOf(fn.target.v.file.path)) + 1].text[1]
                        = "U+F115"

C10_Witness ==
    /\ pc = "painted"
    /\ is_directory(fn.file)
    /\ fn.file.name = <<"a", ".", "z", "i", "p">>
    /\ rule_glyph(1, last(split(fn.file.name))) = "U+F410"
    /\ bits[Len(OwnPrefix) + 1].text[1] = "U+F115"

----------------------------------------------------------------------------
\* The text after the last '.' of a name, the whole name when it has none.
KeyOf(name) ==
    LET dots == {i \in 1..Len(name) : name[i] = "."}
        from == IF dots = {} THEN 1
                ELSE (CHOOSE i \in dots : \A j \in dots : j <= i) + 1
    IN  SubSeq(name, from, Len(name))

\* The rules whose array holds the key, letter for letter.
RulesWith(key) ==
    {i \in 1..Len(IconRules) :
        \E k \in 1..Len(IconRules[i].keys) : IconRules[i].keys[k] = key}

\* The rule that decides the glyph of a key, 0 when none does.
DecidingRule(key) ==
    IF RulesWith(key) = {} THEN 0
    ELSE CHOOSE i \in RulesWith(key) : \A j \in RulesWith(key) : i <= j

TexKey == <<"t", "e", "x">>

\* The rule whose only key is "tex".
TexOnlyRule == CHOOSE i \in 1..Len(IconRules) : IconRules[i].keys = <<TexKey>>

\* The glyph a painted entry's name fragment starts with.
PaintedGlyph == bits[Len(OwnPrefix) + 1].text[1]

\* C11: for an entry that is not a directory the icon key is the last
\* '.'-separated segment of the name (the whole name when it has no '.'),
\* compared letter for letter, case included, with the rules in their
\* order: the first rule that holds the key gives the glyph, and a key no
\* rule holds gets the default glyph U+F15B.  So "a.tex" and "a.styl" get
\* the same glyph from the rule they share, the later rule of "tex" alone
\* decides for no name, and "x.MD" gets the default glyph, not that of
\* "x.md".
C11_IconByLastSegment ==
    (pc = "painted" /\ ~is_directory(fn.file) /\ fn.file.name # <<>>) =>
        LET name == fn.file.name
            key == KeyOf(name)
            rule == DecidingRule(key)
        IN  /\ PaintedGlyph =
                    IF rule = 0 THEN "U+F15B" ELSE IconRules[rule].glyph
            /\ rule # TexOnlyRule
            /\ key = TexKey =>
                    /\ rule < TexOnlyRule
                    /\ \E k \in 1..Len(IconRules[rule].keys) :
                            IconRules[rule].keys[k] = <<"s", "t", "y", "l">>
            /\ name \in {<<"a", ".", "t", "e", "x">>,
                         <<"a", ".", "s", "t", "y", "l">>, TexKey}
                    => PaintedGlyph = "U+E600" /\ rule = 7
            /\ name = <<"x", ".", "M", "D">> => PaintedGlyph = "U+F15B"
            /\ name = <<"x", ".", "m", "d">> => PaintedGlyph = "U+F48A"
            /\ name = <<"a", ".", "z", "i", "p">> => PaintedGlyph = "U+F410"
            /\ name = <<"s", "r", "c">> => PaintedGlyph = "U+F15B"

C11_Witness ==
    /\ pc = "painted"
    /\ ~is_directory(fn.file)
    /\ fn.file.name = <<"a", ".", "t", "e", "x">>
    /\ DecidingRule(KeyOf(fn.file.name)) = 7
    /\ TexOnlyRule > 7
    /\ PaintedGlyph = "U+E600"

====
